---- MODULE Spec2Model ----
(***************************************************************************)
(* Text-to-CAD parse / validate / fallback pipeline (src/main.py) and the  *)
(* per-shape dimension schemas (src/shape_schemas.py).                     *)
(*                                                                         *)
(* JSON values and Python values share one encoding:                       *)
(*   [k |-> "str",  v |-> s]   a string                                    *)
(*   [k |-> "int",  v |-> n]   an integer                                  *)
(*   [k |-> "bool", v |-> b]   a boolean                                   *)
(*   [k |-> "dict", v |-> m]   a mapping, m a function on a set of keys    *)
(*   [k |-> "list", v |-> q]   a list, q a sequence                        *)
(*   [k |-> "null"]            null / None                                 *)
(* A measurement string ("10mm") is a sequence of one-character strings,   *)
(* so that str.replace, str.strip, float() and the f-string of             *)
(* CircleDimensions can be computed character by character.  Names that    *)
(* the code only compares or copies (shape types, feature fields) are      *)
(* atomic strings.                                                         *)
(***************************************************************************)
EXTENDS Integers, Sequences, FiniteSets, TLC

VARIABLES pc, initial_state, input, raw_json, cad_json, error, valid, note, cad_obj, exc, visited, calls

vars == <<pc, initial_state, input, raw_json, cad_json, error, valid, note, cad_obj, exc, visited, calls>>

\* A key of GraphState that no node has written yet (TypedDict, total=False use).
UNSET == [k |-> "unset"]

JNull == [k |-> "null"]

JStr(s) == [k |-> "str", v |-> s]

JInt(n) == [k |-> "int", v |-> n]

JBool(b) == [k |-> "bool", v |-> b]

JDict(m) == [k |-> "dict", v |-> m]

JList(q) == [k |-> "list", v |-> q]

\* The empty mapping {}.
EmptyMap == [x \in {} |-> JNull]

\* d without key x (dict.pop's effect on the mapping).
Without(d, x) == [y \in (DOMAIN d) \ {x} |-> d[y]]

\* d with key x bound to val (dict item assignment).
With(d, x, val) == [y \in (DOMAIN d) \cup {x} |-> IF y = x THEN val ELSE d[y]]

(***************************************************************************)
(* Character-level string functions used by check_radius_or_diameter.      *)
(***************************************************************************)
Digits == <<"0", "1", "2", "3", "4", "5", "6", "7", "8", "9">>

IsDigit(c) == \E i \in 1..10 : Digits[i] = c

DigitVal(c) == (CHOOSE i \in 1..10 : Digits[i] = c) - 1

IsSpace(c) == c \in {" ", "\t", "\n"}

\* str.replace("mm", ""): every non-overlapping occurrence, left to right.
RECURSIVE RemoveMm(_)
RemoveMm(s) ==
    IF Len(s) = 0 THEN <<>>
    ELSE IF Len(s) >= 2 /\ s[1] = "m" /\ s[2] = "m" THEN RemoveMm(SubSeq(s, 3, Len(s)))
    ELSE <<s[1]>> \o RemoveMm(Tail(s))

RECURSIVE LStrip(_)
LStrip(s) == IF Len(s) > 0 /\ IsSpace(s[1]) THEN LStrip(Tail(s)) ELSE s

RECURSIVE RStrip(_)
RStrip(s) == IF Len(s) > 0 /\ IsSpace(s[Len(s)]) THEN RStrip(SubSeq(s, 1, Len(s) - 1)) ELSE s

\* str.strip()
Strip(s) == LStrip(RStrip(s))

AllDigits(s) == \A i \in 1..Len(s) : IsDigit(s[i])

RECURSIVE DigitsToNat(_)
DigitsToNat(s) == IF Len(s) = 0 THEN 0 ELSE 10 * DigitsToNat(SubSeq(s, 1, Len(s) - 1)) + DigitVal(s[Len(s)])

RECURSIVE NatToDigits(_)
NatToDigits(n) == IF n < 10 THEN <<Digits[n + 1]>> ELSE NatToDigits(n \div 10) \o <<Digits[(n % 10) + 1]>>

RECURSIVE Pow10(_)
Pow10(e) == IF e = 0 THEN 1 ELSE 10 * Pow10(e - 1)

\* Position of the first "." of s, 0 when there is none.
DotAt(s) == IF \E i \in 1..Len(s) : s[i] = "." THEN CHOOSE i \in 1..Len(s) : s[i] = "." /\ \A j \in 1..(i - 1) : s[j] /= "." ELSE 0

FloatError == [kind |-> "error"]

\* The unsigned part of a float literal: digits, with at most one "." and at
\* least one digit; or inf / nan.  A finite value is mant / 10^scale, exactly.
ParseUnsigned(s, neg) ==
    IF s = <<"n", "a", "n">> THEN [kind |-> "nan"]
    ELSE IF s = <<"i", "n", "f">> THEN [kind |-> "inf", neg |-> neg]
    ELSE LET d == DotAt(s)
             ip == IF d = 0 THEN s ELSE SubSeq(s, 1, d - 1)
             fp == IF d = 0 THEN <<>> ELSE SubSeq(s, d + 1, Len(s))
         IN IF AllDigits(ip) /\ AllDigits(fp) /\ Len(ip) + Len(fp) > 0
            THEN [kind |-> "fin", neg |-> neg, mant |-> DigitsToNat(ip \o fp), scale |-> Len(fp)]
            ELSE FloatError

\* float(s) on the literals the model's strings can spell: optional surrounding
\* white space, optional sign, then ParseUnsigned.  Anything else is ValueError.
ParseFloat(s) ==
    LET t == Strip(s)
    IN IF Len(t) = 0 THEN FloatError
       ELSE IF t[1] = "-" THEN ParseUnsigned(Tail(t), TRUE)
       ELSE IF t[1] = "+" THEN ParseUnsigned(Tail(t), FALSE)
       ELSE ParseUnsigned(t, FALSE)

\* 2 * r in IEEE double arithmetic: doubling is exact, nan and inf are fixed points.
Twice(r) == IF r.kind = "fin" THEN [r EXCEPT !.mant = 2 * r.mant] ELSE r

\* Drop trailing zeros of the fraction.
RECURSIVE Reduce(_)
Reduce(r) == IF r.scale > 0 /\ r.mant % 10 = 0 THEN Reduce([r EXCEPT !.mant = r.mant \div 10, !.scale = r.scale - 1]) ELSE r

RECURSIVE PadLeft(_, _)
PadLeft(s, n) == IF Len(s) >= n THEN s ELSE PadLeft(<<"0">> \o s, n)

\* format(x, "") of a float, as the f-string f"{2 * r}mm" renders it: repr's
\* shortest decimal, always with a fractional part ("20.0"), "nan", "inf".
FormatFloat(r) ==
    IF r.kind = "nan" THEN <<"n", "a", "n">>
    ELSE IF r.kind = "inf" THEN (IF r.neg THEN <<"-">> ELSE <<>>) \o <<"i", "n", "f">>
    ELSE LET q == Reduce(r)
             ip == NatToDigits(q.mant \div Pow10(q.scale))
             fp == IF q.scale = 0 THEN <<"0">> ELSE PadLeft(NatToDigits(q.mant % Pow10(q.scale)), q.scale)
         IN (IF q.neg THEN <<"-">> ELSE <<>>) \o ip \o <<".">> \o fp

(***************************************************************************)
(* Validation errors.  A pydantic ValidationError carries a title (the     *)
(* model's name) and a list of line errors; str(e) prints the title, then  *)
(* for every line its location, message and, for a ValueError raised by a  *)
(* validator, the text of that ValueError.  ctx holds what that text       *)
(* names: the offending string, or the nested ValidationError.             *)
(***************************************************************************)
NoCtx == [name |-> "", errors |-> <<>>]

LineError(loc, type, msg, ctx) == [loc |-> loc, type |-> type, msg |-> msg, ctx |-> ctx]

PrefixLoc(p, errs) == [i \in 1..Len(errs) |-> [errs[i] EXCEPT !.loc = p \o @]]

RECURSIVE Flatten(_)
Flatten(qq) == IF Len(qq) = 0 THEN <<>> ELSE Head(qq) \o Flatten(Tail(qq))

\* A declared field of a pydantic model: kind is the annotation
\* (str, Optional[str] = None, int, dict, Optional[dict] = None).
Field(name, kind) == [name |-> name, kind |-> kind]

\* Required, were a str annotation given a default: only int and dict fields
\* are demanded.
Required_defaulted(f) == f.kind \in {"int", "dict"}

Required(f) == f.kind \in {"str", "int", "dict"}

\* int() of a string in pydantic's lax mode: optional sign, then digits.
IntLiteral(s) ==
    LET t == Strip(s)
        u == IF Len(t) > 0 /\ t[1] \in {"-", "+"} THEN Tail(t) ELSE t
    IN Len(u) > 0 /\ AllDigits(u)

IntOf(s) ==
    LET t == Strip(s)
    IN IF Len(t) > 0 /\ t[1] = "-" THEN 0 - DigitsToNat(Tail(t))
       ELSE IF Len(t) > 0 /\ t[1] = "+" THEN DigitsToNat(Tail(t))
       ELSE DigitsToNat(t)

\* The line errors pydantic reports for one declared field of the input data.
FieldErrors(f, data) ==
    IF f.name \notin DOMAIN data
    THEN (IF Required(f) THEN <<LineError(<<f.name>>, "missing", "Field required", NoCtx)>> ELSE <<>>)
    ELSE LET x == data[f.name]
         IN CASE f.kind = "str" -> IF x.k = "str" THEN <<>> ELSE <<LineError(<<f.name>>, "string_type", "Input should be a valid string", NoCtx)>>
              [] f.kind = "optstr" -> IF x.k \in {"str", "null"} THEN <<>> ELSE <<LineError(<<f.name>>, "string_type", "Input should be a valid string", NoCtx)>>
              [] f.kind = "dict" -> IF x.k = "dict" THEN <<>> ELSE <<LineError(<<f.name>>, "dict_type", "Input should be a valid dictionary", NoCtx)>>
              [] f.kind = "optdict" -> IF x.k \in {"dict", "null"} THEN <<>> ELSE <<LineError(<<f.name>>, "dict_type", "Input should be a valid dictionary", NoCtx)>>
              [] f.kind = "int" -> IF x.k = "int" THEN <<>>
                                   ELSE IF x.k = "str" THEN (IF IntLiteral(x.v) THEN <<>> ELSE <<LineError(<<f.name>>, "int_parsing", "Input should be a valid integer, unable to parse string as an integer", NoCtx)>>)
                                   ELSE <<LineError(<<f.name>>, "int_type", "Input should be a valid integer", NoCtx)>>

\* The value a valid field takes on the instance: the input, coerced; None
\* when an optional field is not given.
FieldValue(f, data) ==
    IF f.name \notin DOMAIN data THEN JNull
    ELSE IF f.kind = "int" /\ data[f.name].k = "str" THEN JInt(IntOf(data[f.name].v))
    ELSE data[f.name]

\* BaseModel.__init__(**data) up to the model validators: every declared field
\* is checked and all line errors are collected; keys of data that are not
\* declared fields are dropped without an error (no model_config is set, and
\* pydantic's default is extra = "ignore").
ValidateFields(fields, data) ==
    LET errs == Flatten([i \in 1..Len(fields) |-> FieldErrors(fields[i], data)])
    IN IF Len(errs) > 0 THEN [ok |-> FALSE, errors |-> errs]
       ELSE [ok |-> TRUE, obj |-> [n \in {fields[i].name : i \in 1..Len(fields)} |-> FieldValue(CHOOSE f \in {fields[i] : i \in 1..Len(fields)} : f.name = n, data)]]

(***************************************************************************)
(* src/shape_schemas.py                                                    *)
(***************************************************************************)
RectangleDimensions == <<Field("width", "str"), Field("height", "str"), Field("thickness", "str")>>

CircleDimensions == <<Field("diameter", "optstr"), Field("radius", "optstr"), Field("thickness", "str")>>

TriangleDimensions == <<Field("side_1", "str"), Field("side_2", "str"), Field("side_3", "str"), Field("thickness", "str")>>

PolygonDimensions == <<Field("number_of_sides", "int"), Field("side_length", "str"), Field("thickness", "str")>>

EllipseDimensions == <<Field("major_axis", "str"), Field("minor_axis", "str"), Field("thickness", "str")>>

SlotDimensions == <<Field("length", "str"), Field("width", "str"), Field("corner_radius", "str"), Field("thickness", "str")>>

ArcDimensions == <<Field("radius", "str"), Field("angle", "str"), Field("thickness", "str")>>

BoxDimensions == <<Field("width", "str"), Field("height", "str"), Field("depth", "str")>>

CylinderDimensions == <<Field("diameter", "str"), Field("height", "str")>>

ConeDimensions == <<Field("base_diameter", "str"), Field("top_diameter", "str"), Field("height", "str")>>

SphereDimensions == <<Field("diameter", "str")>>

TorusDimensions == <<Field("major_radius", "str"), Field("minor_radius", "str")>>

PyramidDimensions == <<Field("base_shape", "str"), Field("base_dimensions", "dict"), Field("height", "str")>>

\* Python truthiness of an Optional[str]: None and "" are falsy.
Falsy(x) == x.k = "null" \/ (x.k = "str" /\ Len(x.v) = 0)

\* CircleDimensions.check_radius_or_diameter, run on the instance after its
\* fields validated.  The derived diameter is assigned to the instance.
check_radius_or_diameter(self) ==
    IF Falsy(self.diameter) /\ Falsy(self.radius)
    THEN [ok |-> FALSE, errors |-> <<LineError(<<>>, "value_error", "Either 'radius' or 'diameter' must be provided.", NoCtx)>>]
    ELSE IF Falsy(self.diameter) /\ ~Falsy(self.radius)
    THEN LET r == ParseFloat(Strip(RemoveMm(self.radius.v)))
         IN IF r.kind = "error"
            THEN [ok |-> FALSE, errors |-> <<LineError(<<>>, "value_error", "Could not parse radius value", NoCtx)>>]
            ELSE [ok |-> TRUE, obj |-> [self EXCEPT !.diameter = JStr(FormatFloat(Twice(r)) \o <<"m", "m">>)]]
    ELSE [ok |-> TRUE, obj |-> self]

(***************************************************************************)
(* src/main.py                                                             *)
(***************************************************************************)
ShapeTypes == {"rectangle", "circle", "triangle", "polygon", "ellipse", "slot", "arc", "box", "cylinder", "cone", "sphere", "torus", "pyramid"}

\* The registry: shape type -> schema class (its declared fields).
shape_schemas(t) ==
    CASE t = "rectangle" -> RectangleDimensions
      [] t = "circle" -> CircleDimensions
      [] t = "triangle" -> TriangleDimensions
      [] t = "polygon" -> PolygonDimensions
      [] t = "ellipse" -> EllipseDimensions
      [] t = "slot" -> SlotDimensions
      [] t = "arc" -> ArcDimensions
      [] t = "box" -> BoxDimensions
      [] t = "cylinder" -> CylinderDimensions
      [] t = "cone" -> ConeDimensions
      [] t = "sphere" -> SphereDimensions
      [] t = "torus" -> TorusDimensions
      [] t = "pyramid" -> PyramidDimensions

SchemaName(t) ==
    CASE t = "rectangle" -> "RectangleDimensions"
      [] t = "circle" -> "CircleDimensions"
      [] t = "triangle" -> "TriangleDimensions"
      [] t = "polygon" -> "PolygonDimensions"
      [] t = "ellipse" -> "EllipseDimensions"
      [] t = "slot" -> "SlotDimensions"
      [] t = "arc" -> "ArcDimensions"
      [] t = "box" -> "BoxDimensions"
      [] t = "cylinder" -> "CylinderDimensions"
      [] t = "cone" -> "ConeDimensions"
      [] t = "sphere" -> "SphereDimensions"
      [] t = "torus" -> "TorusDimensions"
      [] t = "pyramid" -> "PyramidDimensions"

\* shape_schemas[shape_type](**dims): the schema's fields, then, for
\* CircleDimensions, its model validator.
ValidateSchema(t, dims) ==
    LET r == ValidateFields(shape_schemas(t), dims)
    IN IF r.ok /\ t = "circle" THEN check_radius_or_diameter(r.obj) ELSE r

\* The rename with the old key left in place (an assignment where the code
\* pops).
normalize_field_names_keep(dims) ==
    IF "extrusion" \in DOMAIN dims /\ "thickness" \notin DOMAIN dims
    THEN With(dims, "thickness", dims["extrusion"])
    ELSE dims

\* Lines 41-43: rename "extrusion" to "thickness" when there is no "thickness".
normalize_field_names(dims) ==
    IF "extrusion" \in DOMAIN dims /\ "thickness" \notin DOMAIN dims
    THEN Without(With(dims, "thickness", dims["extrusion"]), "extrusion")
    ELSE dims

\* validate_shape without the membership test of lines 45-46: a type outside
\* the registry is let through with no schema applied.
validate_shape_unchecked(values) ==
    LET shape_type == values.type.v
        dims == normalize_field_names(values.dimensions.v)
    IN IF shape_type \notin ShapeTypes
       THEN [ok |-> TRUE, obj |-> [values EXCEPT !.dimensions = JDict(dims)]]
       ELSE LET r == ValidateSchema(shape_type, dims)
            IN IF ~r.ok
               THEN [ok |-> FALSE, errors |-> <<LineError(<<>>, "value_error", "validation errors for ", [name |-> SchemaName(shape_type), errors |-> r.errors])>>]
               ELSE [ok |-> TRUE, obj |-> [values EXCEPT !.dimensions = JDict(dims)]]

\* BaseShape.validate_shape, on the instance whose two fields validated.  The
\* schema instance built on line 48 is dropped: only its failure matters.
\* The schema's ValidationError is a ValueError raised inside a validator:
\* pydantic reports it under base_shape, its line errors either quoted in the
\* message of one value_error line or merged under base_shape, depending on
\* the pydantic release; ctx.errors holds them in both cases.
validate_shape(values) ==
    LET shape_type == values.type.v
        dims == normalize_field_names(values.dimensions.v)
    IN IF shape_type \notin ShapeTypes
       THEN [ok |-> FALSE, errors |-> <<LineError(<<>>, "value_error", "Unsupported shape type: ", [name |-> shape_type, errors |-> <<>>])>>]
       ELSE LET r == ValidateSchema(shape_type, dims)
            IN IF ~r.ok
               THEN [ok |-> FALSE, errors |-> <<LineError(<<>>, "value_error", "validation errors for ", [name |-> SchemaName(shape_type), errors |-> r.errors])>>]
               ELSE [ok |-> TRUE, obj |-> [values EXCEPT !.dimensions = JDict(dims)]]

BaseShapeFields == <<Field("type", "str"), Field("dimensions", "dict")>>

\* BaseShape(**data)
BaseShape(data) ==
    LET r == ValidateFields(BaseShapeFields, data)
    IN IF r.ok THEN validate_shape(r.obj) ELSE r

FeatureFields == <<Field("type", "str"), Field("location", "optstr"), Field("dimensions", "optdict"), Field("shape", "optstr"), Field("position", "optstr"), Field("diameter", "optstr")>>

\* Feature(**data)
Feature(data) == ValidateFields(FeatureFields, data)

\* A field annotated with a model class: the input must be a mapping.
NestedModel(x, name, model_errors) ==
    IF x.k /= "dict" THEN <<LineError(<<name>>, "model_type", "Input should be a valid dictionary or instance", NoCtx)>>
    ELSE PrefixLoc(<<name>>, model_errors)

\* Line errors of the field base_shape: BaseShape.
BaseShapeErrors(data) ==
    IF "base_shape" \notin DOMAIN data THEN <<LineError(<<"base_shape">>, "missing", "Field required", NoCtx)>>
    ELSE LET x == data["base_shape"]
         IN NestedModel(x, "base_shape", IF x.k = "dict" /\ ~BaseShape(x.v).ok THEN BaseShape(x.v).errors ELSE <<>>)

\* Line errors of the field features: List[Feature], every entry checked.
FeaturesErrors(data) ==
    IF "features" \notin DOMAIN data THEN <<LineError(<<"features">>, "missing", "Field required", NoCtx)>>
    ELSE LET x == data["features"]
         IN IF x.k /= "list" THEN <<LineError(<<"features">>, "list_type", "Input should be a valid list", NoCtx)>>
            ELSE PrefixLoc(<<"features">>, Flatten([i \in 1..Len(x.v) |-> NestedModel(x.v[i], ToString(i - 1), IF x.v[i].k = "dict" /\ ~Feature(x.v[i].v).ok THEN Feature(x.v[i].v).errors ELSE <<>>)]))

\* CADObject(**data): pydantic validates every field of the model and reports
\* the line errors of all of them together; the instance exists only when
\* there is none.
CADObject(data) ==
    LET errs == BaseShapeErrors(data) \o FeaturesErrors(data)
    IN IF Len(errs) > 0 THEN [ok |-> FALSE, errors |-> errs]
       ELSE [ok |-> TRUE, obj |-> [base_shape |-> BaseShape(data["base_shape"].v).obj, features |-> [i \in 1..Len(data["features"].v) |-> Feature(data["features"].v[i].v).obj]]]

\* A dump that lists the features last to first.
model_dump_reversed(obj) ==
    JDict([base_shape |-> JDict([type |-> obj.base_shape.type, dimensions |-> obj.base_shape.dimensions]),
           features |-> JList([i \in 1..Len(obj.features) |-> JDict(obj.features[Len(obj.features) + 1 - i])])])

\* CADObject.model_dump(): the instance as plain dicts and lists, every
\* declared field present (None included).
model_dump(obj) ==
    JDict([base_shape |-> JDict([type |-> obj.base_shape.type, dimensions |-> obj.base_shape.dimensions]),
           features |-> JList([i \in 1..Len(obj.features) |-> JDict(obj.features[i])])])

(***************************************************************************)
(* What the extraction service may answer: the candidate documents.        *)
(***************************************************************************)
\* Largest number of entries of a candidate's features list.
MaxFeatures == 2

S_10mm == <<"1", "0", "m", "m">>

S_5mm == <<"5", "m", "m">>

S_3mm == <<"3", "m", "m">>

S_2mm == <<"2", "m", "m">>

S_red == <<"r", "e", "d">>

S_square == <<"s", "q", "u", "a", "r", "e">>

\* Values a dimension can carry besides the well-formed default of its key.
OverrideValues ==
    { JStr(<<"a", "b", "c">>), JStr(<<"-", "1", "0", "m", "m">>), JStr(<<"2", ".", "5", "m", "m">>),
      JStr(<<>>), JStr(<<" ", "7", " ", "m", "m">>), JStr(<<"n", "a", "n">>), JStr(<<"6">>),
      JInt(3), JNull }

FieldNames(fields) == {fields[i].name : i \in 1..Len(fields)}

FieldNamed(fields, n) == CHOOSE f \in {fields[i] : i \in 1..Len(fields)} : f.name = n

\* The well-formed value of key n in the dimensions of a shape of type t.
DefaultValue(t, n) ==
    CASE n = "extrusion" -> JStr(S_3mm)
      [] n = "color" -> JStr(S_red)
      [] n = "thickness" -> JStr(S_5mm)
      [] n = "base_shape" -> JStr(S_square)
      [] OTHER -> LET kind == FieldNamed(shape_schemas(t), n).kind
                  IN IF kind = "int" THEN JInt(6)
                     ELSE IF kind = "dict" THEN JDict([side_length |-> JStr(S_10mm)])
                     ELSE JStr(S_10mm)

\* Any subset of the type's declared keys, "extrusion" and the undeclared
\* "color", each with its default value.
DefaultDims(t) == {[n \in K |-> DefaultValue(t, n)] : K \in SUBSET (FieldNames(shape_schemas(t)) \cup {"extrusion", "color"})}

\* The same with the value of one key replaced.
OverriddenDims(t) == UNION {{With(m, n, x) : n \in DOMAIN m, x \in OverrideValues} : m \in DefaultDims(t)}

SupportedBaseShapes == UNION {{JDict([type |-> JStr(t), dimensions |-> JDict(m)]) : m \in DefaultDims(t) \cup OverriddenDims(t)} : t \in ShapeTypes}

UnsupportedBaseShapes == {JDict([type |-> JStr("dodecahedron"), dimensions |-> JDict(m)]) : m \in {EmptyMap, [edge |-> JStr(S_10mm)], [extrusion |-> JStr(S_3mm)]}}

\* Base shapes that are not a type string and a dimensions mapping.
MalformedBaseShapes ==
    { JDict([type |-> JStr("box")]), JDict([dimensions |-> JDict(EmptyMap)]), JDict(EmptyMap),
      JDict([type |-> JInt(3), dimensions |-> JDict(EmptyMap)]),
      JDict([type |-> JStr("sphere"), dimensions |-> JStr(S_10mm)]),
      JStr("box"), JNull }

SampleBaseShapes ==
    { JDict([type |-> JStr("circle"), dimensions |-> JDict([radius |-> JStr(S_10mm), thickness |-> JStr(S_5mm)])]),
      JDict([type |-> JStr("rectangle"), dimensions |-> JDict([extrusion |-> JStr(S_3mm), width |-> JStr(S_10mm), height |-> JStr(S_10mm)])]),
      JDict([type |-> JStr("box"), dimensions |-> JDict([width |-> JStr(S_10mm), height |-> JStr(S_10mm)])]),
      JDict([type |-> JStr("dodecahedron"), dimensions |-> JDict(EmptyMap)]) }

F_hole == JDict([type |-> JStr("hole"), location |-> JStr("center"), dimensions |-> JDict([diameter |-> JStr(S_2mm)])])

F_cut == JDict([type |-> JStr("cut"), position |-> JNull, dimensions |-> JDict([extrusion |-> JStr(S_3mm), width |-> JStr(S_2mm)])])

F_untyped == JDict([location |-> JStr("top"), diameter |-> JStr("2mm")])

F_extra == JDict([type |-> JStr("chamfer"), shape |-> JStr("edge"), angle |-> JStr("45")])

FeatureEntries == {F_hole, F_cut, F_untyped, F_extra, JStr("hole")}

FeatureLists == UNION {[1..n -> FeatureEntries] : n \in 0..MaxFeatures}

SampleFeatureLists == {JList(<<>>), JList(<<F_hole>>), JList(<<F_untyped>>), JNull}

\* JSON objects: every base shape with a few features lists, a few base shapes
\* with every features list, and objects lacking a top-level key.
ObjectCandidates ==
    {JDict([base_shape |-> b, features |-> f]) : b \in SupportedBaseShapes \cup UnsupportedBaseShapes \cup MalformedBaseShapes, f \in SampleFeatureLists}
    \cup {JDict([base_shape |-> b, features |-> JList(q)]) : b \in SampleBaseShapes, q \in FeatureLists}
    \cup {JDict([base_shape |-> b]) : b \in SampleBaseShapes}
    \cup {JDict([features |-> f]) : f \in SampleFeatureLists}
    \cup {JDict(EmptyMap), JDict([shape |-> JStr("box")])}

\* JSON documents that are not objects.
NonObjectCandidates == {JList(<<>>), JList(<<F_hole>>), JInt(3), JStr("box"), JNull}

\* Text that is not JSON: cut off, empty, or prose.
InvalidTexts == {"truncated", "empty", "prose"}

\* message.content of the response: a JSON document or other text, possibly
\* with white space around it.
Contents ==
    {[syntax |-> "json", value |-> v, padded |-> p] : v \in ObjectCandidates \cup NonObjectCandidates, p \in BOOLEAN}
    \cup {[syntax |-> "invalid", value |-> JStr(x), padded |-> p] : x \in InvalidTexts, p \in BOOLEAN}

Prompts == {"Create a circle with a radius of 10mm and a 2mm hole at the center", "a box"}

(***************************************************************************)
(* The graph of src/main.py: parse_prompt -> validate -> (fallback | END). *)
(***************************************************************************)
FallbackNote == "Fallback used due to parsing/validation failure."

\* str.strip() of the response text.
strip(content) == [content EXCEPT !.padded = FALSE]

\* json.loads: the document's value, or JSONDecodeError.
json_loads(text) == IF text.syntax = "json" THEN [ok |-> TRUE, value |-> text.value] ELSE [ok |-> FALSE]

\* The edge with its test inverted (is True for is False).
check_validity_inverted(v) == IF v = JBool(TRUE) THEN "fallback" ELSE "end"

\* The conditional edge after validate.
check_validity(v) == IF v = JBool(FALSE) THEN "fallback" ELSE "end"

\* graph.invoke(initial_state) with initial_state = {"input": user_input}.
Init ==
    /\ initial_state \in {[input |-> p] : p \in Prompts}
    /\ input = initial_state.input
    /\ raw_json = UNSET /\ cad_json = UNSET /\ error = UNSET /\ valid = UNSET /\ note = UNSET
    /\ cad_obj = UNSET /\ exc = UNSET
    /\ pc = "parse_prompt" /\ visited = <<>> /\ calls = 0

\* Node parse_prompt: one call of the chat completion, its text stripped.
llm_parse_node ==
    /\ pc = "parse_prompt"
    /\ \E output \in Contents : raw_json' = strip(output)
    /\ calls' = calls + 1
    /\ visited' = Append(visited, "parse_prompt")
    /\ pc' = "validate"
    /\ UNCHANGED <<initial_state, input, cad_json, error, valid, note, cad_obj, exc>>

\* Node validate and the conditional edge that follows it.  The except clause
\* names JSONDecodeError, ValidationError and ValueError; CADObject(**parsed)
\* with parsed not a mapping raises TypeError, which leaves graph.invoke.
validate_node ==
    /\ pc = "validate"
    /\ visited' = Append(visited, "validate")
    /\ LET parsed == json_loads(raw_json)
       IN IF ~parsed.ok
          THEN /\ error' = [exception |-> "JSONDecodeError", title |-> "", errors |-> <<>>]
               /\ valid' = JBool(FALSE)
               /\ pc' = check_validity(valid')
               /\ UNCHANGED <<cad_json, cad_obj, exc>>
          ELSE IF parsed.value.k /= "dict"
          THEN /\ exc' = [k |-> "exception", v |-> "TypeError"]
               /\ pc' = "raised"
               /\ UNCHANGED <<cad_json, cad_obj, error, valid>>
          ELSE LET r == CADObject(parsed.value.v)
               IN IF r.ok
                  THEN /\ cad_obj' = r.obj
                       /\ cad_json' = model_dump(r.obj)
                       /\ valid' = JBool(TRUE)
                       /\ pc' = check_validity(valid')
                       /\ UNCHANGED <<error, exc>>
                  ELSE /\ error' = [exception |-> "ValidationError", title |-> "CADObject", errors |-> r.errors]
                       /\ valid' = JBool(FALSE)
                       /\ pc' = check_validity(valid')
                       /\ UNCHANGED <<cad_json, cad_obj, exc>>
    /\ UNCHANGED <<initial_state, input, raw_json, note, calls>>

\* Node fallback, then END.
fallback_node ==
    /\ pc = "fallback"
    /\ visited' = Append(visited, "fallback")
    /\ cad_json' = JNull
    /\ note' = JStr(FallbackNote)
    /\ error' = (IF error = UNSET THEN [exception |-> "", title |-> "Unknown error", errors |-> <<>>] ELSE error)
    /\ pc' = "end"
    /\ UNCHANGED <<initial_state, input, raw_json, valid, cad_obj, exc, calls>>

Next == llm_parse_node \/ validate_node \/ fallback_node

Spec == Init /\ [][Next]_vars

(***************************************************************************)
(* Vocabulary of the properties.                                           *)
(***************************************************************************)
\* The validate node has run.
Validated == Len(visited) >= 2

\* The candidate is a JSON object.
IsObject == raw_json /= UNSET /\ raw_json.syntax = "json" /\ raw_json.value.k = "dict"

\* The candidate is a JSON object whose base_shape is a mapping with a string
\* type and a mapping of dimensions.
HasBaseShape ==
    /\ IsObject
    /\ "base_shape" \in DOMAIN raw_json.value.v
    /\ raw_json.value.v["base_shape"].k = "dict"
    /\ LET b == raw_json.value.v["base_shape"].v
       IN /\ {"type", "dimensions"} \subseteq DOMAIN b
          /\ b["type"].k = "str"
          /\ b["dimensions"].k = "dict"

GivenType == raw_json.value.v["base_shape"].v["type"].v

GivenDims == raw_json.value.v["base_shape"].v["dimensions"].v

\* The candidate's features are a list of entries that are all valid features.
FeaturesValid == IsObject /\ "features" \in DOMAIN raw_json.value.v /\ FeaturesErrors(raw_json.value.v) = <<>>

GivenFeatures == raw_json.value.v["features"].v

\* The dimensions reported in cad_json.
ReportedDims == cad_json.v["base_shape"].v["dimensions"].v

ReportedFeatures == cad_json.v["features"].v

\* A string that spells a finite, non-negative number of millimetres.
IsNonNegMm(x) ==
    /\ x.k = "str"
    /\ LET r == ParseFloat(Strip(RemoveMm(x.v)))
       IN r.kind = "fin" /\ (~r.neg \/ r.mant = 0)

\* The line errors of the base shape's schema, as the message reports them:
\* nested in the ValueError raised by validate_shape.
SchemaLines(t) ==
    IF error = UNSET THEN {}
    ELSE UNION {{e.ctx.errors[j] : j \in 1..Len(e.ctx.errors)} : e \in {error.errors[i] : i \in {i \in 1..Len(error.errors) : error.errors[i].loc = <<"base_shape">> /\ error.errors[i].ctx.name = SchemaName(t)}}}

(***************************************************************************)
(* Properties.                                                             *)
(***************************************************************************)
\* C1: when the base shape's dimensions hold every required field of a
\* supported type, valid, plus one key the schema does not declare (other than
\* the synonym "extrusion"), the run ends with valid = false, cad_json = null
\* and the fallback note.
C1_ClosedSchema ==
    (pc = "end" /\ HasBaseShape /\ GivenType \in ShapeTypes
        /\ \E x \in (DOMAIN GivenDims) \ (FieldNames(shape_schemas(GivenType)) \cup {"extrusion", "thickness"}) :
              /\ (DOMAIN GivenDims) \ {x} = {f.name : f \in {g \in {shape_schemas(GivenType)[i] : i \in 1..Len(shape_schemas(GivenType))} : Required(g)}}
              /\ ValidateSchema(GivenType, Without(GivenDims, x)).ok)
    => (valid = JBool(FALSE) /\ cad_json = JNull /\ note = JStr(FallbackNote))

\* C2: a circle given radius "10mm" and thickness "5mm" (features valid)
\* validates, and the reported dimensions hold diameter "20mm" next to the
\* radius; in general a circle given a radius and no diameter that validates
\* reports a diameter.
C2_DerivedDiameter ==
    (pc = "end" /\ HasBaseShape /\ GivenType = "circle" /\ FeaturesValid
        /\ "radius" \in DOMAIN GivenDims /\ "diameter" \notin DOMAIN GivenDims)
    => /\ (GivenDims = [radius |-> JStr(S_10mm), thickness |-> JStr(S_5mm)]
              => /\ valid = JBool(TRUE)
                 /\ "diameter" \in DOMAIN ReportedDims
                 /\ ReportedDims["diameter"] = JStr(<<"2", "0", "m", "m">>)
                 /\ ReportedDims["radius"] = JStr(S_10mm))
       /\ (valid = JBool(TRUE) => "diameter" \in DOMAIN ReportedDims /\ ReportedDims["radius"] = GivenDims["radius"])

\* C3: whatever the candidate, the validate node lets no failure escape; a
\* candidate that is not JSON, not an object, lacks base_shape or features, or
\* fails schema validation gives valid = false with an error, and the run ends
\* in the fallback state.
C3_NeverEscapes ==
    Validated =>
        /\ pc /= "raised"
        /\ ((~json_loads(raw_json).ok \/ ~IsObject \/ ~CADObject(raw_json.value.v).ok)
               => /\ valid = JBool(FALSE)
                  /\ error /= UNSET
                  /\ pc \in {"fallback", "end"}
                  /\ (pc = "end" => note = JStr(FallbackNote) /\ cad_json = JNull))

SuccessRecord ==
    /\ valid = JBool(TRUE)
    /\ note = UNSET /\ error = UNSET
    /\ cad_json.k = "dict"
    /\ DOMAIN cad_json.v = {"base_shape", "features"}
    /\ DOMAIN cad_json.v["base_shape"].v = {"type", "dimensions"}
    /\ cad_json.v["base_shape"].v["type"].v = GivenType
    /\ Len(ReportedFeatures) = Len(GivenFeatures)
    /\ CADObject(raw_json.value.v).ok

FallbackRecord ==
    /\ valid = JBool(FALSE)
    /\ cad_json = JNull
    /\ note = JStr(FallbackNote)
    /\ error /= UNSET
    /\ error.exception \in {"JSONDecodeError", "ValidationError"}
    /\ (error.exception = "ValidationError" => Len(error.errors) > 0)

\* C4: a run that ends holds either the success record or the fallback record,
\* never a mix; the fallback node is entered exactly when valid = false; and
\* cad_json never holds an object that did not validate as a whole.
C4_TerminalShapes ==
    /\ (pc = "end" => (IF valid = JBool(TRUE) THEN SuccessRecord ELSE FallbackRecord))
    /\ ((pc = "fallback" \/ (Len(visited) = 3 /\ visited[3] = "fallback")) <=> valid = JBool(FALSE))
    /\ (cad_json \notin {UNSET, JNull} => valid = JBool(TRUE) /\ CADObject(raw_json.value.v).ok)

\* A run that ended in the fallback record after a validation error.
C4_Witness == pc = "end" /\ valid = JBool(FALSE) /\ note = JStr(FallbackNote) /\ error.exception = "ValidationError" /\ cad_json = JNull

\* The dimension keys of type t that carry a measurement.
MeasurementKeys(t) == {f.name : f \in {g \in {shape_schemas(t)[i] : i \in 1..Len(shape_schemas(t))} : g.kind \in {"str", "optstr"} /\ ~(t = "pyramid" /\ g.name = "base_shape")}}

\* C5: every measurement of a base shape reported with valid = true spells a
\* finite, non-negative number of millimetres, and so does the diameter a
\* circle's schema derives from its radius.
C5_NonNegativeMm ==
    (pc = "end" /\ valid = JBool(TRUE))
    => /\ \A n \in MeasurementKeys(GivenType) \cap DOMAIN ReportedDims : ReportedDims[n].k = "null" \/ IsNonNegMm(ReportedDims[n])
       /\ (GivenType = "circle" => IsNonNegMm(ValidateSchema("circle", ReportedDims).obj.diameter))

C7_Normalization ==
    (Validated /\ HasBaseShape)
    => LET d == GivenDims
           n == normalize_field_names(d)
       IN /\ IF "extrusion" \in DOMAIN d /\ "thickness" \notin DOMAIN d
             THEN /\ DOMAIN n = ((DOMAIN d) \ {"extrusion"}) \cup {"thickness"}
                  /\ n["thickness"] = d["extrusion"]
                  /\ \A x \in (DOMAIN d) \ {"extrusion"} : n[x] = d[x]
             ELSE n = d
          /\ (valid = JBool(TRUE) => ReportedDims = n)
          /\ (valid = JBool(TRUE) => \A i \in 1..Len(GivenFeatures) :
                 "dimensions" \in DOMAIN GivenFeatures[i].v => ReportedFeatures[i].v["dimensions"] = GivenFeatures[i].v["dimensions"])
          /\ ((GivenType = "rectangle" /\ d = [extrusion |-> JStr(S_3mm), width |-> JStr(S_10mm), height |-> JStr(S_10mm)] /\ FeaturesValid)
                 => valid = JBool(TRUE) /\ ReportedDims = [thickness |-> JStr(S_3mm), width |-> JStr(S_10mm), height |-> JStr(S_10mm)])

\* The rectangle given extrusion, validated, with a feature that has its own
\* extrusion.
C7_Witness ==
    /\ pc = "end" /\ valid = JBool(TRUE) /\ HasBaseShape /\ GivenType = "rectangle"
    /\ GivenDims = [extrusion |-> JStr(S_3mm), width |-> JStr(S_10mm), height |-> JStr(S_10mm)]
    /\ \E i \in 1..Len(GivenFeatures) : GivenFeatures[i] = F_cut

\* C8: the mapping reported for a validated object validates again, to an
\* object equal to the first, features in the same order.
C8_RoundTrip ==
    (pc = "end" /\ valid = JBool(TRUE))
    => LET again == CADObject(cad_json.v)
       IN /\ again.ok
          /\ again.obj = cad_obj
          /\ \A i \in 1..Len(GivenFeatures) : again.obj.features[i].type = GivenFeatures[i].v["type"]

\* A validated circle given only a radius, with two different features.
C8_Witness ==
    /\ pc = "end" /\ valid = JBool(TRUE) /\ HasBaseShape /\ GivenType = "circle"
    /\ GivenDims = [radius |-> JStr(S_10mm), thickness |-> JStr(S_5mm)]
    /\ GivenFeatures = <<F_hole, F_cut>>

\* C9: when a required field of the type's schema is given neither under its
\* own name nor, for thickness, as "extrusion", validation fails and the error
\* reports that field as missing; a circle given thickness but neither radius
\* nor diameter fails too.
C9_MissingRequired ==
    (Validated /\ HasBaseShape /\ GivenType \in ShapeTypes)
    => /\ \A i \in 1..Len(shape_schemas(GivenType)) :
             LET f == shape_schemas(GivenType)[i]
             IN (f.kind \in {"str", "int", "dict"} /\ f.name \notin DOMAIN GivenDims /\ ~(f.name = "thickness" /\ "extrusion" \in DOMAIN GivenDims))
                   => /\ valid = JBool(FALSE)
                      /\ \E e \in SchemaLines(GivenType) : e.loc = <<f.name>> /\ e.type = "missing"
       /\ ((GivenType = "circle" /\ {"radius", "diameter"} \cap DOMAIN GivenDims = {}) => valid = JBool(FALSE))

\* A rectangle without thickness (and without extrusion), rejected.
C9_Witness ==
    /\ pc = "end" /\ valid = JBool(FALSE) /\ HasBaseShape /\ GivenType = "rectangle"
    /\ GivenDims = [width |-> JStr(S_10mm), height |-> JStr(S_10mm)]
    /\ \E e \in SchemaLines("rectangle") : e.loc = <<"thickness">> /\ e.type = "missing"

\* C10: a run visits parse_prompt, validate and then at most fallback, each
\* once and in this order, calls the extraction service once, leaves input as
\* given, and is never cut short before its terminal state.
C10_Path ==
    /\ visited \in {<<>>, <<"parse_prompt">>, <<"parse_prompt", "validate">>, <<"parse_prompt", "validate", "fallback">>}
    /\ calls = (IF visited = <<>> THEN 0 ELSE 1)
    /\ input = initial_state.input
    /\ pc /= "raised"

====
